---------------------------- MODULE Spec2Model ----------------------------
(***************************************************************************)
(* State-machine model of luxor_like.py: the process-wide drawing context  *)
(* _ctx, the png() scope (a generator-based context manager), the setter   *)
(* and drawing commands, and the colour parser.                            *)
(*                                                                         *)
(* Numbers.  Python floats are modelled as integers in units of 1/Scale,   *)
(* Scale = 255 * 100, so that every hundredth and every k/255 is exact and *)
(* a division by 255.0 of a hundredth is exact.                            *)
(* Strings are sequences of one-character strings.                         *)
(* Handles (surface, ctx, pil_image): 0 is None, h > 0 is the object       *)
(* created by the png() call whose scope is the h-th of the open scopes,   *)
(* outermost first; objects of scopes that are not open together are never *)
(* live together.                                                          *)
(***************************************************************************)
EXTENDS Integers, Sequences, FiniteSets, TLC

VARIABLES
    HAS_CAIRO,        \* module constant, set by the import probe
    HAS_PIL,          \* module constant, set by the import probe
    HAS_MPL_COLORS,   \* module constant, set by the import probe
    _ctx,             \* the process-wide dict _ctx
    frames,           \* suspended png() generators (their path), innermost last
    call,             \* name of the last call made by the caller
    arg,              \* argument of the last call (NoArg when not recorded)
    err,              \* exception the last call raised to the caller
    finalize,         \* what the last scope exit did at the write step
    ops,              \* backend paint operations the last call issued
    geom              \* geometry the last call computed for the backend

vars == <<HAS_CAIRO, HAS_PIL, HAS_MPL_COLORS, _ctx, frames,
          call, arg, err, finalize, ops, geom>>

---------------------------------------------------------------------------
(* Bounds of the model *)

\* with png(...) blocks open at once
MaxDepth == 2

---------------------------------------------------------------------------
(* Numbers *)

Scale == 255 * 100

\* n hundredths as a model number
H(n) == n * 255

\* k/255 as a model number
B(k) == k * 100

Max2(a, b) == IF a >= b THEN a ELSE b
Min2(a, b) == IF a <= b THEN a ELSE b

RECURSIVE SeqMax(_)
SeqMax(s) ==
    IF Len(s) = 1 THEN s[1] ELSE Max2(s[1], SeqMax(Tail(s)))

---------------------------------------------------------------------------
(* Values passed by the caller: None, a tuple/list of numbers, a string,   *)
(* or a bare number.                                                       *)

Val(k, v, str) == [kind |-> k, vals |-> v, s |-> str]
PyNone == Val("None", <<>>, <<>>)
Tup(v) == Val("tuple", v, <<>>)
Str(str) == Val("str", <<>>, str)
Num(n) == Val("num", <<n>>, <<>>)
NoArg == Val("noarg", <<>>, <<>>)


---------------------------------------------------------------------------
(* Strings: str.strip, str.lower, str.startswith, int(s, 16) *)

Whitespace == {" ", "\t", "\n"}

UpperChars == <<"A", "B", "C", "D", "E", "F", "G", "H", "I", "J", "K", "L", "M",
                "N", "O", "P", "Q", "R", "S", "T", "U", "V", "W", "X", "Y", "Z">>
LowerChars == <<"a", "b", "c", "d", "e", "f", "g", "h", "i", "j", "k", "l", "m",
                "n", "o", "p", "q", "r", "s", "t", "u", "v", "w", "x", "y", "z">>

HexChars == <<"0", "1", "2", "3", "4", "5", "6", "7", "8", "9",
              "a", "b", "c", "d", "e", "f">>

IndexOf(seq, c) ==
    IF \E i \in 1..Len(seq) : seq[i] = c
    THEN CHOOSE i \in 1..Len(seq) : seq[i] = c
    ELSE 0

LowerChar(c) ==
    IF IndexOf(UpperChars, c) > 0 THEN LowerChars[IndexOf(UpperChars, c)] ELSE c

\* str.lower()
lower(s) == [i \in 1..Len(s) |-> LowerChar(s[i])]

RECURSIVE lstrip(_)
lstrip(s) ==
    IF s # <<>> /\ s[1] \in Whitespace THEN lstrip(Tail(s)) ELSE s

RECURSIVE rstrip(_)
rstrip(s) ==
    IF s # <<>> /\ s[Len(s)] \in Whitespace
    THEN rstrip(SubSeq(s, 1, Len(s) - 1))
    ELSE s

\* str.strip()
strip(s) == rstrip(lstrip(s))

IsHexDigit(c) == IndexOf(HexChars, LowerChar(c)) > 0
HexDigit(c) == IndexOf(HexChars, LowerChar(c)) - 1

RECURSIVE HexDigits(_)
HexDigits(s) ==
    IF s = <<>> THEN 0 ELSE 16 * HexDigits(SubSeq(s, 1, Len(s) - 1)) + HexDigit(s[Len(s)])

\* Python's int(s, 16) on the slices _parse_color takes (two characters): the
\* text is stripped of surrounding whitespace, may carry one sign, and must
\* then be a non-empty run of hex digits; anything else is a ValueError.
\* ("0x" prefixes and "_" separators need three characters and cannot occur.)
int16(s) ==
    LET t == strip(s)
        signed == t # <<>> /\ t[1] \in {"+", "-"}
        digits == IF signed THEN Tail(t) ELSE t
        valid == digits # <<>> /\ \A i \in 1..Len(digits) : IsHexDigit(digits[i])
    IN  [ok |-> valid,
         v |-> IF ~valid THEN 0
               ELSE IF signed /\ t[1] = "-" THEN 0 - HexDigits(digits)
               ELSE HexDigits(digits)]

---------------------------------------------------------------------------
(* Colour parsing *)

Black == <<0, 0, 0>>

\* name |-> triple, as a sequence of <<name, triple>> pairs
_SIMPLE_COLORS ==
    << <<"black", <<0, 0, 0>> >>,
       <<"white", <<Scale, Scale, Scale>> >>,
       <<"red", <<Scale, 0, 0>> >>,
       <<"green", <<0, Scale, 0>> >>,
       <<"blue", <<0, 0, Scale>> >>,
       <<"darkblue", <<H(6), H(6), H(50)>> >>,
       <<"navy", <<0, 0, H(50)>> >>,
       <<"yellow", <<Scale, Scale, 0>> >>,
       <<"gray", <<H(50), H(50), H(50)>> >> >>

\* The named colours matplotlib's to_rgb resolves, among the names used here
\* (its CSS4 table), as <<name, triple>> pairs.
MplColors ==
    << <<"black", <<0, 0, 0>> >>,
       <<"white", <<Scale, Scale, Scale>> >>,
       <<"red", <<Scale, 0, 0>> >>,
       <<"green", <<0, B(128), 0>> >>,
       <<"blue", <<0, 0, Scale>> >>,
       <<"darkblue", <<0, 0, B(139)>> >>,
       <<"navy", <<0, 0, B(128)>> >>,
       <<"yellow", <<Scale, Scale, 0>> >>,
       <<"gray", <<B(128), B(128), B(128)>> >> >>

\* The characters of a TLA+ string constant used as a table key
Chars(name) ==
    CASE name = "black" -> <<"b", "l", "a", "c", "k">>
      [] name = "white" -> <<"w", "h", "i", "t", "e">>
      [] name = "red" -> <<"r", "e", "d">>
      [] name = "green" -> <<"g", "r", "e", "e", "n">>
      [] name = "blue" -> <<"b", "l", "u", "e">>
      [] name = "darkblue" -> <<"d", "a", "r", "k", "b", "l", "u", "e">>
      [] name = "navy" -> <<"n", "a", "v", "y">>
      [] name = "yellow" -> <<"y", "e", "l", "l", "o", "w">>
      [] name = "gray" -> <<"g", "r", "a", "y">>

InTable(table, key) == \E i \in 1..Len(table) : Chars(table[i][1]) = key
Lookup(table, key) ==
    table[CHOOSE i \in 1..Len(table) : Chars(table[i][1]) = key][2]

Ok(rgb) == [err |-> "none", rgb |-> rgb]
Raise(e) == [err |-> e, rgb |-> Black]

AllHex(s) == \A i \in 1..Len(s) : IsHexDigit(s[i])

\* matplotlib.colors.to_rgb(s) on a string: a named colour (case-insensitive),
\* "#rgb", "#rrggbb", "#rgba" or "#rrggbbaa" with hex digits only (alpha
\* dropped); anything else raises ValueError.
to_rgb(s) ==
    LET k == lower(s)
        d == Tail(k)
    IN  IF InTable(MplColors, k) THEN Ok(Lookup(MplColors, k))
        ELSE IF k # <<>> /\ k[1] = "#" /\ Len(d) \in {6, 8} /\ AllHex(d)
        THEN Ok(<<B(HexDigits(SubSeq(d, 1, 2))), B(HexDigits(SubSeq(d, 3, 4))),
                  B(HexDigits(SubSeq(d, 5, 6)))>>)
        ELSE IF k # <<>> /\ k[1] = "#" /\ Len(d) \in {3, 4} /\ AllHex(d)
        THEN Ok(<<B(HexDigits(<<d[1], d[1]>>)), B(HexDigits(<<d[2], d[2]>>)),
                  B(HexDigits(<<d[3], d[3]>>))>>)
        ELSE Raise("ValueError")

\* lines 100-109: the hex branch, on the stripped, lower-cased key
ParseHex(key) ==
    LET r == IF Len(key) = 7 THEN int16(SubSeq(key, 2, 3)) ELSE int16(<<key[2], key[2]>>)
        g == IF Len(key) = 7 THEN int16(SubSeq(key, 4, 5)) ELSE int16(<<key[3], key[3]>>)
        b == IF Len(key) = 7 THEN int16(SubSeq(key, 6, 7)) ELSE int16(<<key[4], key[4]>>)
    IN  IF ~r.ok \/ ~g.ok \/ ~b.ok THEN Raise("ValueError")
        ELSE Ok(<<B(r.v), B(g.v), B(b.v)>>)

\* lines 82-86: the tuple/list branch
ParseTuple(col) ==
    LET vals == SubSeq(col, 1, Min2(3, Len(col)))
    IN  IF vals = <<>> THEN Raise("ValueError")           \* max(()) 
        ELSE IF Len(vals) < 3 THEN Raise("IndexError")     \* vals[2]
        ELSE IF SeqMax(vals) > Scale
        THEN Ok(<<vals[1] \div 255, vals[2] \div 255, vals[3] \div 255>>)
        ELSE Ok(vals)

\* lines 88-111: the string branch
ParseString(hasMpl, str) ==
    LET s == strip(str)
        key == lower(s)
    IN  IF hasMpl /\ to_rgb(s).err = "none" THEN to_rgb(s)
        ELSE IF InTable(_SIMPLE_COLORS, key) THEN Ok(Lookup(_SIMPLE_COLORS, key))
        ELSE IF key # <<>> /\ key[1] = "#" /\ Len(key) \in {4, 7} THEN ParseHex(key)
        ELSE Ok(Black)

\* _parse_color(col), with the module constant _HAS_MPL_COLORS as a parameter;
\* the result is the colour returned or the exception raised.
_parse_color(hasMpl, col) ==
    IF col.kind = "None" THEN Ok(Black)
    ELSE IF col.kind = "tuple" THEN ParseTuple(col.vals)
    ELSE IF col.kind = "str" THEN ParseString(hasMpl, col.s)
    ELSE Ok(Black)

---------------------------------------------------------------------------
(* The drawing context _ctx *)

\* lines 52-64: the module-level dict
InitialCtx ==
    [backend |-> "None", surface |-> 0, ctx |-> 0, width |-> 0, height |-> 0,
     current_color |-> Black, alpha |-> Scale, dash |-> PyNone,
     line_width |-> 2 * Scale, pil_image |-> 0, current_point |-> PyNone]

\* CairoOpen with a stroke width of 1.0 for the default 2.0
CairoOpen_thin_line(c, h, width, height) ==
    [c EXCEPT !.backend = "cairo", !.surface = h, !.ctx = h,
              !.width = width, !.height = height,
              !.current_color = Black, !.alpha = Scale, !.dash = PyNone,
              !.line_width = Scale, !.pil_image = 0,
              !.current_point = PyNone]

\* lines 131-143: _ctx.update(...) of the cairo branch; h is the new surface
\* and its context
CairoOpen(c, h, width, height) ==
    [c EXCEPT !.backend = "cairo", !.surface = h, !.ctx = h,
              !.width = width, !.height = height,
              !.current_color = Black, !.alpha = Scale, !.dash = PyNone,
              !.line_width = 2 * Scale, !.pil_image = 0,
              !.current_point = PyNone]

\* lines 147-159: _ctx.update(...) of the PIL branch; h is the new image and
\* its ImageDraw
PilOpen(c, h, width, height) ==
    [c EXCEPT !.backend = "pil", !.surface = 0, !.ctx = h,
              !.width = width, !.height = height,
              !.current_color = Black, !.alpha = Scale, !.dash = PyNone,
              !.line_width = 2 * Scale, !.pil_image = h,
              !.current_point = PyNone]

\* ResetCtx without dash=None
ResetCtx_keeps_dash(c) ==
    [c EXCEPT !.backend = "None", !.surface = 0, !.ctx = 0,
              !.width = 0, !.height = 0,
              !.current_color = Black, !.alpha = Scale,
              !.line_width = 2 * Scale, !.pil_image = 0,
              !.current_point = PyNone]

\* lines 170-182: _ctx.update(...) of the finally clause
ResetCtx(c) ==
    [c EXCEPT !.backend = "None", !.surface = 0, !.ctx = 0,
              !.width = 0, !.height = 0,
              !.current_color = Black, !.alpha = Scale, !.dash = PyNone,
              !.line_width = 2 * Scale, !.pil_image = 0,
              !.current_point = PyNone]

\* _require_ctx without its check
_require_ctx_unchecked(c) ==
    "none"

\* lines 67-69: the exception _require_ctx raises, "none" when it returns
_require_ctx(c) ==
    IF c.backend = "None" \/ c.ctx = 0 THEN "NoActiveSession" ELSE "none"

\* SelectBackend asking for PIL first
SelectBackend_pil_first(hasCairo, hasPil) ==
    IF hasPil THEN "pil" ELSE IF hasCairo THEN "cairo" ELSE "None"

\* SelectBackend with "else" for "elif _HAS_PIL"
SelectBackend_else_pil(hasCairo, hasPil) ==
    IF hasCairo THEN "cairo" ELSE "pil"

\* lines 126, 144, 160: the backend png() takes, "None" when it raises
SelectBackend(hasCairo, hasPil) ==
    IF hasCairo THEN "cairo" ELSE IF hasPil THEN "pil" ELSE "None"

\* lines 165-168: the write step of a normal scope exit: what it does, given
\* whether the output target can be written when the step runs
Finalize(c, writable) ==
    IF c.backend = "cairo"
    THEN IF c.surface = 0 THEN "AttributeError"
         ELSE IF writable THEN "written" ELSE "IOError"
    ELSE IF c.pil_image = 0 THEN "AttributeError"
         ELSE IF writable THEN "written" ELSE "IOError"

---------------------------------------------------------------------------
(* Geometry: points are pairs <<x, y>> of model numbers; angles are integers *)
(* in units of pi/4, exact for the directions the model draws from (along  *)
(* an axis or a diagonal).                                                 *)

\* line 496: the symbolic origin "O"
O == Str(<<"O">>)

\* math.pi, in units of pi/4
Pi == 4

_to_canvas_xy_flipped(c, p) ==
    <<(c.width * Scale) \div 2 + p[1], (c.height * Scale) \div 2 - p[2]>>

\* lines 72-75
_to_canvas_xy(c, p) ==
    <<(c.width * Scale) \div 2 + p[1], (c.height * Scale) \div 2 + p[2]>>

\* lines 243-246, 275-278: the pixel centre of circle and rect
CenterXY(c, center) ==
    IF center = O
    THEN <<(c.width * Scale) \div 2, (c.height * Scale) \div 2>>
    ELSE _to_canvas_xy(c, center.vals)

\* math.atan2(y, x), for x = 0, y = 0 or |x| = |y|; atan2(0, 0) is 0
atan2(y, x) ==
    IF y = 0 THEN (IF x >= 0 THEN 0 ELSE Pi)
    ELSE IF y > 0 THEN (IF x > 0 THEN 1 ELSE IF x = 0 THEN 2 ELSE 3)
    ELSE (IF x > 0 THEN 0 - 1 ELSE IF x = 0 THEN 0 - 2 ELSE 0 - 3)

\* the integer square root
RECURSIVE IsqrtIn(_, _, _)
IsqrtIn(n, lo, hi) ==
    IF lo >= hi THEN lo
    ELSE LET mid == (lo + hi + 1) \div 2
         IN  IF mid * mid <= n THEN IsqrtIn(n, mid, hi) ELSE IsqrtIn(n, lo, mid - 1)

Isqrt(n) == IsqrtIn(n, 0, Min2(n, 40000))

\* math.hypot(x, y), rounded down to a hundredth
hypot(x, y) ==
    H(Isqrt((x \div 255) * (x \div 255) + (y \div 255) * (y \div 255)))

\* lines 462-463, 467-468: while da <= 0: da += 2 * math.pi
RECURSIVE Normalize(_)
Normalize(da) ==
    IF da <= 0 THEN Normalize(da + 2 * Pi) ELSE da

ArcSpec_no_swap(center, p_from, p_to) ==
    LET c == IF center = O THEN <<0, 0>> ELSE center.vals
        a1 == atan2(p_from[2] - c[2], p_from[1] - c[1])
        a2 == atan2(p_to[2] - c[2], p_to[1] - c[1])
    IN  [err |-> "none", c |-> c, r |-> hypot(p_from[1] - c[1], p_from[2] - c[2]),
         a1 |-> a1, a2 |-> a2, da |-> Normalize(a2 - a1)]

ArcSpec_div_by_radius(center, p_from, p_to) ==
    LET c == IF center = O THEN <<0, 0>> ELSE center.vals
        a1 == atan2(p_from[2] - c[2], p_from[1] - c[1])
        a2 == atan2(p_to[2] - c[2], p_to[1] - c[1])
        r == hypot(p_from[1] - c[1], p_from[2] - c[2])
        da == Normalize(a2 - a1)
    IN  IF r = 0
        THEN [err |-> "ZeroDivisionError", c |-> c, r |-> r, a1 |-> a1, a2 |-> a2, da |-> da]
        ELSE IF da > Pi
        THEN [err |-> "none", c |-> c, r |-> r, a1 |-> a2, a2 |-> a1, da |-> Normalize(a1 - a2)]
        ELSE [err |-> "none", c |-> c, r |-> r, a1 |-> a1, a2 |-> a2, da |-> da]

\* lines 453-468: the centre, radius and angles arc2r computes. da is the
\* last value of the local da: the counter-clockwise delta from a1 to a2.
ArcSpec(center, p_from, p_to) ==
    LET c == IF center = O THEN <<0, 0>> ELSE center.vals
        fx == p_from[1] - c[1]
        fy == p_from[2] - c[2]
        tx == p_to[1] - c[1]
        ty == p_to[2] - c[2]
        a1 == atan2(fy, fx)
        a2 == atan2(ty, tx)
        da == Normalize(a2 - a1)
    IN  IF da > Pi
        THEN [err |-> "none", c |-> c, r |-> hypot(fx, fy),
              a1 |-> a2, a2 |-> a1, da |-> Normalize(a1 - a2)]
        ELSE [err |-> "none", c |-> c, r |-> hypot(fx, fy),
              a1 |-> a1, a2 |-> a2, da |-> da]

\* math.cos and math.sin of k * pi/4, for even k (exact values)
cos4(k) ==
    IF k % 8 = 0 THEN 1 ELSE IF k % 8 = 4 THEN 0 - 1 ELSE 0
sin4(k) ==
    IF k % 8 = 2 THEN 1 ELSE IF k % 8 = 6 THEN 0 - 1 ELSE 0

\* What a call hands to the backend: the pixel centre (<<>> when the call has
\* none), the pixel points of its path, and its other numbers.
Geom(center, pts, nums) == [center |-> center, pts |-> pts, nums |-> nums]
NoGeom == Geom(<<>>, <<>>, <<>>)

\* The recorded argument of a drawing call: its centre (O, a point or NoArg),
\* its points and its other numbers (flags, sizes).
Args(center, pts, nums) ==
    [kind |-> "args", vals |-> nums, s |-> <<>>, center |-> center, pts |-> pts]

---------------------------------------------------------------------------
(* Inputs of the model *)

Paths == {"out.png"}
Sizes == {<<200, 200>>, <<100, 50>>}

ch_red == <<"r", "e", "d">>
ch_solid == <<"s", "o", "l", "i", "d">>
ch_dot == <<"d", "o", "t">>
ch_dash == <<"d", "a", "s", "h">>

ColorInputs ==
    { PyNone,
      Tup(<<0, 0, Scale>>),                              \* (0, 0, 1)
      Tup(<<Scale, 0, 0>>),                              \* (1.0, 0.0, 0.0)
      Tup(<<255 * Scale, 0, 0>>),                        \* (255, 0, 0)
      Tup(<<300 * Scale, 0, 0>>),                        \* (300, 0, 0)
      Tup(<<0 - 5 * Scale, 0, 0>>),                      \* (-5, 0, 0)
      Tup(<<Scale, 0, 0, H(50)>>),                       \* (1, 0, 0, 0.5)
      Tup(<<Scale, 0>>),                                 \* (1, 0)
      Tup(<<>>),                                         \* ()
      Str(ch_red),                                       \* "red"
      Str(<<" ", "R", "e", "d", " ">>),                  \* " Red "
      Str(<<"g", "r", "e", "e", "n">>),                  \* "green"
      Str(<<"#", "f", "f", "0", "0", "0", "0">>),        \* "#ff0000"
      Str(<<"#", "F", "0", "0">>),                       \* "#F00"
      Str(<<"#", "z", "z", "z", "z", "z", "z">>),        \* "#zzzzzz"
      Str(<<"#", "-", "f", "0", "0", "0", "0">>),        \* "#-f0000"
      Str(<<"#", "f", "f", "0", "0", "0">>),             \* "#ff000"
      Str(<<"b", "o", "g", "u", "s">>),                  \* "bogus"
      Str(<<"#", "3", "3", "6", "6", "9", "9">>),        \* "#336699"
      Tup(<<51 * Scale, 102 * Scale, 153 * Scale>>),     \* (51, 102, 153)
      Tup(<<B(51), B(102), B(153)>>) }                   \* (0.2, 0.4, 0.6)

\* values random.random() can return, in hundredths
RandomSamples == {0, 50}

DashInputs ==
    { PyNone, Str(ch_solid), Str(ch_dot), Str(ch_dash),
      Tup(<<H(200), H(100)>>),                           \* (2, 1)
      Str(<<"D", "o", "t">>),                            \* "Dot"
      Str(<<"w", "a", "v", "y">>),                       \* "wavy"
      Num(H(300)) }                                      \* 3

AlphaInputs == {0 - H(50), 0, H(25), Scale, H(150)}   \* -0.5, 0, 0.25, 1, 1.5
WidthInputs == {0 - H(100), 0, H(5), H(10), H(300)}    \* -1, 0, 0.05, 0.1, 3

PointInputs == {Tup(<<H(100), H(100)>>)}
Flags == {0, 1}

---------------------------------------------------------------------------
(* The state machine *)

Init ==
    /\ HAS_CAIRO \in BOOLEAN
    /\ HAS_PIL \in BOOLEAN
    /\ HAS_MPL_COLORS \in BOOLEAN
    /\ _ctx = InitialCtx
    /\ frames = <<>>
    /\ call = "import"
    /\ arg = NoArg
    /\ err = "none"
    /\ finalize = "none"
    /\ ops = <<>>
    /\ geom = NoGeom

\* The caller-visible outcome of one call of a command: the exception raised
\* ("none": returned), the context after it, the paint operations issued and
\* their geometry.
ReturnGeom(name, a, e, c, o, g) ==
    /\ call' = name
    /\ arg' = a
    /\ err' = e
    /\ _ctx' = c
    /\ ops' = o
    /\ geom' = g
    /\ finalize' = "none"
    /\ UNCHANGED <<HAS_CAIRO, HAS_PIL, HAS_MPL_COLORS, frames>>

\* The outcome of a call that computes no geometry
Return(name, a, e, c, o) ==
    ReturnGeom(name, a, e, c, o, NoGeom)

\* lines 124-164: with png(path, width, height): up to the yield
png(path, width, height) ==
    /\ Len(frames) < MaxDepth
    /\ call' = "png"
    /\ arg' = NoArg
    /\ ops' = <<>>
    /\ geom' = NoGeom
    /\ finalize' = "none"
    /\ UNCHANGED <<HAS_CAIRO, HAS_PIL, HAS_MPL_COLORS>>
    /\ LET b == SelectBackend(HAS_CAIRO, HAS_PIL)
           h == Len(frames) + 1
       IN  IF b = "None"
           THEN /\ err' = "BackendUnavailable"
                /\ UNCHANGED <<_ctx, frames>>
           ELSE /\ err' = "none"
                /\ _ctx' = IF b = "cairo" THEN CairoOpen(_ctx, h, width, height)
                           ELSE PilOpen(_ctx, h, width, height)
                /\ frames' = Append(frames, path)

\* lines 165-182: the block of the innermost with ends normally: the
\* generator resumes after the yield, writes, and runs the finally clause
png_exit(writable) ==
    /\ frames # <<>>
    /\ LET f == Finalize(_ctx, writable)
       IN  /\ finalize' = f
           /\ err' = IF f = "written" THEN "none" ELSE f
    /\ _ctx' = ResetCtx(_ctx)
    /\ frames' = SubSeq(frames, 1, Len(frames) - 1)
    /\ call' = "exit"
    /\ arg' = NoArg
    /\ ops' = <<>>
    /\ geom' = NoGeom
    /\ UNCHANGED <<HAS_CAIRO, HAS_PIL, HAS_MPL_COLORS>>

\* lines 163-164, 169-182: exception e leaves the block of the innermost
\* with: it is thrown into the generator at the yield, the finally clause
\* runs and e goes on to the caller
Unwind(e) ==
    /\ frames # <<>>
    /\ finalize' = "skipped"
    /\ err' = e
    /\ _ctx' = ResetCtx(_ctx)
    /\ frames' = SubSeq(frames, 1, Len(frames) - 1)
    /\ call' = "exit"
    /\ arg' = NoArg
    /\ ops' = <<>>
    /\ geom' = NoGeom
    /\ UNCHANGED <<HAS_CAIRO, HAS_PIL, HAS_MPL_COLORS>>

\* the exception of the last call made in the block is not caught in it
png_exit_command_error ==
    /\ err # "none"
    /\ Unwind(err)

\* the block raises an exception of its own
png_exit_body_error ==
    Unwind("BodyError")

\* lines 185-190
sethue(color) ==
    LET r == _require_ctx(_ctx)
        p == _parse_color(HAS_MPL_COLORS, color)
    IN  IF r # "none" THEN Return("sethue", color, r, _ctx, <<>>)
        ELSE IF p.err # "none" THEN Return("sethue", color, p.err, _ctx, <<>>)
        ELSE Return("sethue", color, "none",
                    [_ctx EXCEPT !.current_color = p.rgb], <<>>)

\* setopacity storing its argument as it is
setopacity_unclamped(alpha) ==
    LET r == _require_ctx(_ctx)
    IN  IF r # "none" THEN Return("setopacity", Num(alpha), r, _ctx, <<>>)
        ELSE Return("setopacity", Num(alpha), "none", [_ctx EXCEPT !.alpha = alpha], <<>>)

\* lines 193-198
setopacity(alpha) ==
    LET r == _require_ctx(_ctx)
    IN  IF r # "none" THEN Return("setopacity", Num(alpha), r, _ctx, <<>>)
        ELSE Return("setopacity", Num(alpha), "none",
                    [_ctx EXCEPT !.alpha = Max2(0, Min2(Scale, alpha))], <<>>)

\* lines 201-205
setlinewidth(w) ==
    LET r == _require_ctx(_ctx)
    IN  IF r # "none" THEN Return("setlinewidth", Num(w), r, _ctx, <<>>)
        ELSE Return("setlinewidth", Num(w), "none",
                    [_ctx EXCEPT !.line_width = Max2(H(10), w)], <<>>)

\* DashOf with the patterns of "dot" and "dash" exchanged
DashOf_swapped(style) ==
    IF style = PyNone \/ style = Str(ch_solid) THEN PyNone
    ELSE IF style = Str(ch_dot) THEN Tup(<<H(600), H(400)>>)
    ELSE IF style = Str(ch_dash) THEN Tup(<<H(150), H(300)>>)
    ELSE IF style.kind = "tuple" THEN Tup(style.vals)
    ELSE Val("raise", <<>>, <<>>)

\* DashOf taking every other style for "solid"
DashOf_unknown_is_solid(style) ==
    IF style = Str(ch_dot) THEN Tup(<<H(150), H(300)>>)
    ELSE IF style = Str(ch_dash) THEN Tup(<<H(600), H(400)>>)
    ELSE IF style.kind = "tuple" THEN Tup(style.vals)
    ELSE PyNone

\* lines 210-219: the pattern for a style; kind "raise" for the ValueError
DashOf(style) ==
    IF style = PyNone \/ style = Str(ch_solid) THEN PyNone
    ELSE IF style = Str(ch_dot) THEN Tup(<<H(150), H(300)>>)
    ELSE IF style = Str(ch_dash) THEN Tup(<<H(600), H(400)>>)
    ELSE IF style.kind = "tuple" THEN Tup(style.vals)
    ELSE Val("raise", <<>>, <<>>)

\* lines 208-223
setdash(style) ==
    LET r == _require_ctx(_ctx)
        d == DashOf(style)
    IN  IF r # "none" THEN Return("setdash", style, r, _ctx, <<>>)
        ELSE IF d.kind = "raise"
        THEN Return("setdash", style, "InvalidDashStyle", _ctx, <<>>)
        ELSE Return("setdash", style, "none", [_ctx EXCEPT !.dash = d], <<>>)

\* ShapeOps painting the outline first
ShapeOps_stroke_first(stroke, fill) ==
    (IF stroke = 1 THEN <<"stroke">> ELSE <<>>) \o (IF fill = 1 THEN <<"fill">> ELSE <<>>)

\* lines 257-260, 267-270, 292-295, 301-304: the paint operations of a shape
\* with the given flags, fill first
ShapeOps(stroke, fill) ==
    (IF fill = 1 THEN <<"fill">> ELSE <<>>) \o (IF stroke = 1 THEN <<"stroke">> ELSE <<>>)

\* A drawing command that reads _ctx and paints: it leaves _ctx as it is.
DrawGeom(name, a, o, g) ==
    LET r == _require_ctx(_ctx)
    IN  IF r # "none" THEN Return(name, a, r, _ctx, <<>>)
        ELSE ReturnGeom(name, a, "none", _ctx, o, g)

\* background keeping the colour it painted as the current colour
background_sets_hue(color) ==
    LET r == _require_ctx(_ctx)
        p == _parse_color(HAS_MPL_COLORS, color)
    IN  IF r # "none" THEN Return("background", color, r, _ctx, <<>>)
        ELSE IF p.err # "none" THEN Return("background", color, p.err, _ctx, <<>>)
        ELSE Return("background", color, "none",
                    [_ctx EXCEPT !.current_color = p.rgb], <<"fill">>)

\* lines 226-238
background(color) ==
    LET r == _require_ctx(_ctx)
        p == _parse_color(HAS_MPL_COLORS, color)
    IN  IF r # "none" THEN Return("background", color, r, _ctx, <<>>)
        ELSE IF p.err # "none" THEN Return("background", color, p.err, _ctx, <<>>)
        ELSE Return("background", color, "none", _ctx, <<"fill">>)

\* lines 241-270
circle(center, radius, stroke, fill) ==
    DrawGeom("circle", Args(center, <<>>, <<stroke, fill, radius>>),
             ShapeOps(stroke, fill),
             Geom(CenterXY(_ctx, center), <<>>, <<radius>>))

\* lines 273-304
rect(center, w, h, stroke, fill) ==
    LET cxy == CenterXY(_ctx, center)
    IN  DrawGeom("rect", Args(center, <<>>, <<stroke, fill, w, h>>),
                 ShapeOps(stroke, fill),
                 Geom(cxy,
                      << <<cxy[1] - w \div 2, cxy[2] - h \div 2>>,
                         <<cxy[1] + w \div 2, cxy[2] + h \div 2>> >>,
                      <<w, h>>))

\* lines 307-327
line(p1, p2) ==
    DrawGeom("line", Args(NoArg, <<p1, p2>>, <<>>), <<"stroke">>,
             Geom(<<>>, <<_to_canvas_xy(_ctx, p1), _to_canvas_xy(_ctx, p2)>>, <<>>))

\* lines 330-372: the four control points in pixels (the PIL branch strokes
\* the polyline through 61 samples of the same curve)
bezier(p0, p1, p2, p3) ==
    DrawGeom("bezier", Args(NoArg, <<p0, p1, p2, p3>>, <<>>), <<"stroke">>,
             Geom(<<>>,
                  <<_to_canvas_xy(_ctx, p0), _to_canvas_xy(_ctx, p1),
                    _to_canvas_xy(_ctx, p2), _to_canvas_xy(_ctx, p3)>>, <<>>))

\* lines 375-421: the position in pixels, before the anchor shift by the
\* backend's text extents
label(pos) ==
    DrawGeom("label", Args(NoArg, <<pos>>, <<>>), <<"text">>,
             Geom(<<>>, <<_to_canvas_xy(_ctx, pos)>>, <<>>))

\* lines 424-434: _require_ctx, then label(...) at pos + offset * (cos, sin)
label_angle(angle, pos, offset) ==
    LET q == <<pos[1] + offset * cos4(angle), pos[2] + offset * sin4(angle)>>
    IN  DrawGeom("label_angle", Args(NoArg, <<pos>>, <<angle, offset>>), <<"text">>,
                 Geom(<<>>, <<_to_canvas_xy(_ctx, q)>>, <<>>))

\* lines 437-439: _require_ctx, then sethue of three random.random() values
randomhue(r, g, b) ==
    LET e == _require_ctx(_ctx)
        p == _parse_color(HAS_MPL_COLORS, Tup(<<H(r), H(g), H(b)>>))
    IN  IF e # "none" THEN Return("randomhue", NoArg, e, _ctx, <<>>)
        ELSE Return("randomhue", NoArg, p.err,
                    [_ctx EXCEPT !.current_color = p.rgb], <<>>)

\* lines 442-444
move(p) ==
    LET r == _require_ctx(_ctx)
    IN  IF r # "none" THEN Return("move", NoArg, r, _ctx, <<>>)
        ELSE Return("move", NoArg, "none", [_ctx EXCEPT !.current_point = p], <<>>)

\* lines 447-493: the pixel centre, then radius, start angle, end angle and
\* the last value of da
arc2r(center, p_from, p_to) ==
    LET r == _require_ctx(_ctx)
        a == ArcSpec(center, p_from, p_to)
        args == Args(center, <<p_from, p_to>>, <<>>)
    IN  IF r # "none" THEN Return("arc2r", args, r, _ctx, <<>>)
        ELSE IF a.err # "none" THEN Return("arc2r", args, a.err, _ctx, <<>>)
        ELSE ReturnGeom("arc2r", args, "none", _ctx, <<"stroke">>,
                        Geom(_to_canvas_xy(_ctx, a.c), <<>>, <<a.r, a.a1, a.a2, a.da>>))

\* the point at offset d from a centre
Shift(center, d) ==
    IF center = O THEN d ELSE <<center.vals[1] + d[1], center.vals[2] + d[2]>>

\* The calls a caller can make, with arguments from the given sets: colours,
\* random.random() samples, opacities, stroke widths, dash styles, canvas
\* sizes, centres of shapes and arcs, offsets of an arc's two boundary points
\* from its centre, and points.
NextOver(colors, samples, alphas, widths, dashes, sizes, centers, froms, tos, points) ==
    \/ \E path \in Paths, size \in sizes : png(path, size[1], size[2])
    \/ \E writable \in BOOLEAN : png_exit(writable)
    \/ png_exit_command_error
    \/ png_exit_body_error
    \/ \E color \in colors : sethue(color)
    \/ \E alpha \in alphas : setopacity(alpha)
    \/ \E w \in widths : setlinewidth(w)
    \/ \E style \in dashes : setdash(style)
    \/ \E color \in colors : background(color)
    \/ \E c \in centers, stroke \in Flags, fill \in Flags : circle(c, H(5000), stroke, fill)
    \/ \E c \in centers, stroke \in Flags, fill \in Flags : rect(c, H(4000), H(2000), stroke, fill)
    \/ \E p1 \in points, p2 \in points : line(p1, p2)
    \/ \E p0 \in points, p3 \in points : bezier(p0, <<0, H(1000)>>, <<H(1000), 0>>, p3)
    \/ \E c \in centers, d1 \in froms, d2 \in tos : arc2r(c, Shift(c, d1), Shift(c, d2))
    \/ \E p \in points : label(p)
    \/ \E p \in points, k \in {0, 2} : label_angle(k, p, H(1500))
    \/ \E r \in samples, g \in samples, b \in samples : randomhue(r, g, b)
    \/ \E p \in PointInputs : move(p)

\* Geometry inputs of the specifications that are not about geometry
OneCenter == {O}
OneOffset == {<<H(100), 0>>}
OnePoint == {<<H(100), H(100)>>}

\* Session lifecycle and setters: few colours, every dash style
Next ==
    NextOver({Str(ch_red), Str(<<"#", "z", "z", "z", "z", "z", "z">>)}, {50},
             {H(25)}, {H(300)}, DashInputs, Sizes, OneCenter, OneOffset, OneOffset, OnePoint)

Spec == Init /\ [][Next]_vars

\* Colours: every colour input; the other setters are called with the values
\* they already hold
NextColor ==
    NextOver(ColorInputs, RandomSamples, {Scale}, {2 * Scale}, {PyNone},
             Sizes, OneCenter, OneOffset, OneOffset, OnePoint)

SpecColor == Init /\ [][NextColor]_vars

\* Opacity and stroke width: arguments below, at and above the clamps
NextPaint ==
    NextOver({PyNone}, {0}, AlphaInputs, WidthInputs, {PyNone},
             Sizes, OneCenter, OneOffset, OneOffset, OnePoint)

SpecPaint == Init /\ [][NextPaint]_vars

\* Coordinates: canvases of even and odd size, centres O, (0, 0) and
\* (30, -20), points at and off the origin; the setters are called with the
\* values they already hold
GeomSizes == {<<200, 200>>, <<101, 51>>}
GeomCenters == {O, Tup(<<0, 0>>), Tup(<<H(3000), 0 - H(2000)>>)}
GeomOffsets == {<<H(100), 0>>, <<0, H(100)>>}
GeomPoints == {<<0, 0>>, <<H(3000), 0 - H(2000)>>}

NextGeom ==
    NextOver({PyNone}, {0}, {Scale}, {2 * Scale}, {PyNone},
             GeomSizes, GeomCenters, GeomOffsets, GeomOffsets, GeomPoints)

SpecGeom == Init /\ [][NextGeom]_vars

\* Arcs: centres O, (0, 0) and (30, -20); the end point in the eight axis
\* and diagonal directions from the centre and at the centre itself; the
\* start point east, west, north-east and south-west of the centre (on both
\* sides of atan2's cut, on an axis and on a diagonal) and at the centre
ArcCenters == {O, Tup(<<0, 0>>), Tup(<<H(3000), 0 - H(2000)>>)}
ArcTos == {<<x * H(100), y * H(100)>> : x \in {0 - 1, 0, 1}, y \in {0 - 1, 0, 1}}
ArcFroms ==
    {<<H(100), 0>>, <<0 - H(100), 0>>, <<H(100), H(100)>>,
     <<0 - H(100), 0 - H(100)>>, <<0, 0>>}

NextArc ==
    NextOver({PyNone}, {0}, {Scale}, {2 * Scale}, {PyNone},
             {<<200, 200>>}, ArcCenters, ArcFroms, ArcTos, OnePoint)

SpecArc == Init /\ [][NextArc]_vars

---------------------------------------------------------------------------
(* Properties *)

Commands ==
    {"sethue", "setopacity", "setlinewidth", "setdash", "background", "circle",
     "rect", "line", "bezier", "arc2r", "label", "label_angle", "randomhue", "move"}

\* PaintState and current_point hold the documented defaults
PaintDefaults(c) ==
    /\ c.current_color = <<0, 0, 0>>
    /\ c.alpha = Scale
    /\ c.dash = PyNone
    /\ c.line_width = 2 * Scale
    /\ c.current_point = PyNone

\* "no active session": no backend, no handles, no canvas
NoSession(c) ==
    /\ c.backend = "None"
    /\ c.surface = 0
    /\ c.ctx = 0
    /\ c.pil_image = 0
    /\ c.width = 0
    /\ c.height = 0

\* C1: a command called while no session is open raises NoActiveSession,
\* paints nothing and leaves the context and the open scopes as they were.
C1_NoActiveSession ==
    [][(_ctx.backend = "None" /\ call' \in Commands)
        => (/\ err' = "NoActiveSession"
            /\ ops' = <<>>
            /\ _ctx' = _ctx
            /\ frames' = frames)]_vars

\* a command fails inside a scope whose session an inner close has torn down
C1_Witness ==
    /\ call = "move"
    /\ err = "NoActiveSession"
    /\ frames # <<>>

\* C2: after every scope exit (normal, by an exception of the block, or with
\* the write failing) there is no active session and PaintState is at its
\* defaults, and a failure of the write is the exception the caller gets.
C2_ExitTearsDown ==
    call = "exit" =>
        /\ NoSession(_ctx)
        /\ PaintDefaults(_ctx)
        /\ (finalize \in {"IOError", "AttributeError"} => err = finalize)

\* an exit whose write failed on an unwritable target
C2_Witness ==
    /\ call = "exit"
    /\ finalize = "IOError"
    /\ err = "IOError"
    /\ NoSession(_ctx)

\* C3: every scope exit attempts the write before the reset.
C3_FinalizeOnEveryExit ==
    call = "exit" => finalize # "skipped"

\* C4: png() called while a session is active is rejected and leaves the
\* active session's handles, size and PaintState in place.
C4_SecondOpenRejected ==
    [][(_ctx.backend # "None" /\ call' = "png")
        => (err' # "none" /\ _ctx' = _ctx)]_vars

\* C5: right after a successful open PaintState and current_point are at their
\* defaults.
C5_OpenStartsAtDefaults ==
    (call = "png" /\ err = "none") => PaintDefaults(_ctx)

\* a session just opened, not nested in another
C5_Witness ==
    /\ call = "png"
    /\ err = "none"
    /\ Len(frames) = 1
    /\ _ctx.backend # "None"

\* C6: with neither backend available png() raises BackendUnavailable, no
\* session ever exists and every command raises NoActiveSession.
C6_NoBackendNoSession ==
    (~HAS_CAIRO /\ ~HAS_PIL) =>
        /\ NoSession(_ctx)
        /\ PaintDefaults(_ctx)
        /\ frames = <<>>
        /\ (call = "png" => err = "BackendUnavailable")
        /\ (call \in Commands => err = "NoActiveSession")

\* png() has failed for want of a backend
C6_Witness ==
    /\ ~HAS_CAIRO
    /\ ~HAS_PIL
    /\ call = "png"
    /\ err = "BackendUnavailable"

\* C7: in an open session setdash succeeds on None, "solid", "dot", "dash" and
\* on a tuple of numbers, and stores no pattern, no pattern, (1.5, 3.0),
\* (6.0, 4.0) and the tuple itself.
C7_DashMapping ==
    (call = "setdash" /\ _ctx.backend # "None") =>
        /\ (arg \in {PyNone, Str(ch_solid)} => (err = "none" /\ _ctx.dash = PyNone))
        /\ (arg = Str(ch_dot) => (err = "none" /\ _ctx.dash = Tup(<<H(150), H(300)>>)))
        /\ (arg = Str(ch_dash) => (err = "none" /\ _ctx.dash = Tup(<<H(600), H(400)>>)))
        /\ (arg.kind = "tuple" => (err = "none" /\ _ctx.dash = Tup(arg.vals)))

\* setdash("dot") has stored (1.5, 3.0)
C7_Witness ==
    /\ call = "setdash"
    /\ arg = Str(ch_dot)
    /\ err = "none"
    /\ _ctx.dash = Tup(<<H(150), H(300)>>)

\* C8: in an open session setdash with a named style other than "solid",
\* "dot", "dash" raises InvalidDashStyle and changes nothing.
C8_UnknownDashStyle ==
    [][(/\ _ctx.backend # "None"
        /\ call' = "setdash"
        /\ arg'.kind = "str"
        /\ arg'.s \notin {ch_solid, ch_dot, ch_dash})
        => (/\ err' = "InvalidDashStyle"
            /\ ops' = <<>>
            /\ _ctx' = _ctx
            /\ frames' = frames)]_vars

\* an unknown style was refused while a pattern was stored, and the pattern
\* is still there
C8_Witness ==
    /\ call = "setdash"
    /\ err = "InvalidDashStyle"
    /\ _ctx.dash = Tup(<<H(600), H(400)>>)

\* C9: in an open session sethue and background never raise, whatever the
\* colour argument.
C9_ParseNeverFails ==
    (call \in {"sethue", "background"} /\ _ctx.backend # "None") => err = "none"

\* C10: the stored colour always has three channels, each in [0, 1].
C10_ColorCanonical ==
    /\ Len(_ctx.current_color) = 3
    /\ \A i \in 1..3 : _ctx.current_color[i] >= 0 /\ _ctx.current_color[i] <= Scale

\* The input forms of pure red and of the colour 0x336699
RedForms ==
    { Str(<<"#", "f", "f", "0", "0", "0", "0">>), Tup(<<255 * Scale, 0, 0>>),
      Tup(<<Scale, 0, 0>>), Str(ch_red) }

SteelForms ==
    { Str(<<"#", "3", "3", "6", "6", "9", "9">>),
      Tup(<<51 * Scale, 102 * Scale, 153 * Scale>>),
      Tup(<<B(51), B(102), B(153)>>) }

\* C11: the forms of one colour parse to one triple: after a successful
\* sethue, every form of red stores (1, 0, 0), every form of 0x336699 stores
\* (51/255, 102/255, 153/255), and a name of the colour table stores the
\* table's triple.
C11_FormsAgree ==
    (call = "sethue" /\ err = "none" /\ _ctx.backend # "None") =>
        /\ arg \in RedForms => _ctx.current_color = <<Scale, 0, 0>>
        /\ arg \in SteelForms => _ctx.current_color = <<B(51), B(102), B(153)>>
        /\ (arg.kind = "str" /\ InTable(_SIMPLE_COLORS, lower(strip(arg.s)))) =>
               _ctx.current_color = Lookup(_SIMPLE_COLORS, lower(strip(arg.s)))

\* An arc2r call that returned in an open session
ArcCall == call = "arc2r" /\ err = "none" /\ _ctx.backend # "None"

\* The direction of the call's i-th boundary point from the call's centre
Dir(i) ==
    LET c == IF arg.center = O THEN <<0, 0>> ELSE arg.center.vals
    IN  atan2(arg.pts[i][2] - c[2], arg.pts[i][1] - c[1])

\* The counter-clockwise delta from angle u to angle v, in [0, 2 pi)
Ccw(u, v) == (v - u + 4 * Pi) % (2 * Pi)

\* C12 as stated: whatever the centre and the boundary points, the
\* counter-clockwise delta arc2r computes between its final start and end
\* angles is at most pi.
C12_SpanAtMostPi ==
    ArcCall => geom.nums[4] <= Pi

\* C12, amended: for boundary points in different directions from the
\* centre, the final angles are the two directions, ordered so that the
\* counter-clockwise delta from start to end is the shorter sweep, at most pi
\* (pi/2 for centre (0,0), from (1,0), to (0,1)); for boundary points in the
\* same direction the two angles are equal and the computed delta is 2 pi.
C12_MinorArc ==
    ArcCall =>
        LET u == Dir(1)
            v == Dir(2)
            a1 == geom.nums[2]
            a2 == geom.nums[3]
            da == geom.nums[4]
        IN  /\ u = v => (a1 = u /\ a2 = u /\ da = 2 * Pi)
            /\ u # v => /\ {a1, a2} = {u, v}
                        /\ Ccw(a1, a2) = da
                        /\ da = Min2(Ccw(u, v), Ccw(v, u))
                        /\ da <= Pi
            /\ (arg.center = Tup(<<0, 0>>)
                /\ arg.pts = << <<H(100), 0>>, <<0, H(100)>> >>) => da = 2

C12_Witness ==
    /\ ArcCall
    /\ arg.center = Tup(<<0, 0>>)
    /\ arg.pts = << <<H(100), 0>>, <<0, H(100)>> >>
    /\ geom.nums[4] = 2

\* C13: arc2r(c, a, b) and arc2r(c, b, a) select the same arc: the call with
\* the boundary points exchanged computes the same radius-independent
\* selection, that is the same start angle, end angle and span.
C13_ArcSymmetric ==
    ArcCall =>
        LET s == ArcSpec(arg.center, arg.pts[2], arg.pts[1])
        IN  /\ geom.nums[2] = s.a1
            /\ geom.nums[3] = s.a2
            /\ geom.nums[4] = s.da

\* Half of n pixels
Half(n) == (n * Scale) \div 2

\* The pixel point the transform is to give for the logical point p
to_pixel(p) == <<Half(_ctx.width) + p[1], Half(_ctx.height) + p[2]>>

C15_VectorPreferred ==
    /\ [](_ctx.backend # "None" =>
            /\ _ctx.backend = "cairo" <=> HAS_CAIRO
            /\ _ctx.backend = "pil" <=> (~HAS_CAIRO /\ HAS_PIL))
    /\ [][(_ctx.backend # "None" /\ _ctx'.backend # "None") =>
            _ctx'.backend = _ctx.backend]_vars

C15_Witness ==
    /\ HAS_CAIRO /\ HAS_PIL
    /\ _ctx.backend = "cairo"
    /\ call \in Commands /\ err = "none"

\* C16: the stored opacity is always in [0, 1] and the stored stroke width at
\* least 0.1; setopacity(a) stores 0 for a below 0, 1 for a above 1 and a
\* otherwise; setlinewidth(w) stores 0.1 for w below 0.1 and w otherwise.
C16_Clamped ==
    /\ 0 <= _ctx.alpha /\ _ctx.alpha <= Scale
    /\ _ctx.line_width >= H(10)
    /\ (call = "setopacity" /\ err = "none") =>
           _ctx.alpha = (IF arg.vals[1] < 0 THEN 0
                         ELSE IF arg.vals[1] > Scale THEN Scale ELSE arg.vals[1])
    /\ (call = "setlinewidth" /\ err = "none") =>
           _ctx.line_width = (IF arg.vals[1] < H(10) THEN H(10) ELSE arg.vals[1])

C16_Witness ==
    /\ call = "setopacity" /\ err = "none"
    /\ arg = Num(H(150))
    /\ _ctx.alpha = Scale
    /\ _ctx.line_width = H(10)

\* C17: circle and rect paint the fill and then the outline when both are
\* asked for, only the one asked for when one is, and nothing when neither is.
C17_FillBeforeStroke ==
    (call \in {"circle", "rect"} /\ err = "none") =>
        LET stroke == arg.vals[1]
            fill == arg.vals[2]
        IN  /\ (stroke = 1 /\ fill = 1) => ops = <<"fill", "stroke">>
            /\ (stroke = 1 /\ fill = 0) => ops = <<"stroke">>
            /\ (stroke = 0 /\ fill = 1) => ops = <<"fill">>
            /\ (stroke = 0 /\ fill = 0) => ops = <<>>

C17_Witness ==
    /\ call = "rect" /\ err = "none"
    /\ _ctx.backend = "pil"
    /\ arg.vals[1] = 1 /\ arg.vals[2] = 1
    /\ ops = <<"fill", "stroke">>

\* The fields of the paint state, the canvas size and the backend tag
Fields ==
    {"current_color", "alpha", "line_width", "dash", "current_point",
     "width", "height", "backend"}

\* The commands that draw, and the field each setter owns
DrawingCommands ==
    {"background", "circle", "rect", "line", "bezier", "arc2r", "label", "label_angle"}

Owned(name) ==
    CASE name = "sethue" -> {"current_color"}
      [] name = "setopacity" -> {"alpha"}
      [] name = "setlinewidth" -> {"line_width"}
      [] name = "setdash" -> {"dash"}
      [] name = "move" -> {"current_point"}
      [] OTHER -> {}

\* C18: in an open session a drawing command leaves colour, opacity, stroke
\* width, dash, current point, canvas size and backend as they are; move
\* changes at most the current point, and sethue, setopacity, setlinewidth and
\* setdash at most the field each of them owns.
C18_Frame ==
    [][(_ctx.backend # "None"
        /\ call' \in DrawingCommands \cup {"move", "sethue", "setopacity", "setlinewidth", "setdash"})
       => \A f \in Fields \ Owned(call') : _ctx'[f] = _ctx[f]]_vars

C18_Witness ==
    /\ call = "background" /\ err = "none"
    /\ _ctx.current_color = <<Scale, 0, 0>>
    /\ _ctx.alpha = H(25)
    /\ _ctx.line_width = H(300)
    /\ _ctx.dash # PyNone
    /\ _ctx.current_point # PyNone

\* An arc2r call in an open session whose two boundary points are its centre
DegenerateArc ==
    /\ call = "arc2r" /\ _ctx.backend # "None"
    /\ arg.pts[1] = (IF arg.center = O THEN <<0, 0>> ELSE arg.center.vals)
    /\ arg.pts[2] = arg.pts[1]

\* C19: arc2r with from = to = centre returns without an error, with radius 0
\* and a delta its loops have brought into (0, 2 pi], and strokes the arc.
C19_DegenerateArc ==
    DegenerateArc =>
        /\ err = "none"
        /\ geom.nums[1] = 0
        /\ geom.nums[4] > 0 /\ geom.nums[4] <= 2 * Pi
        /\ ops = <<"stroke">>

C19_Witness ==
    /\ DegenerateArc
    /\ arg.center = Tup(<<H(3000), 0 - H(2000)>>)
    /\ err = "none"
    /\ geom.nums[1] = 0

\* The backend tag and the handles agree in context c
HandlesAgree(c) ==
    /\ c.backend = "None" <=> c.ctx = 0
    /\ c.backend = "cairo" => (c.surface # 0 /\ c.pil_image = 0)
    /\ c.backend = "pil" => (c.pil_image # 0 /\ c.surface = 0)
    /\ c.backend = "None" <=> (c.width = 0 /\ c.height = 0)

\* C20: the backend tag and the handles always agree, and the write step of a
\* scope exit never finds None where it expects its handle.
C20_HandlesConsistent ==
    /\ HandlesAgree(_ctx)
    /\ finalize # "AttributeError"

=============================================================================
